---- MODULE Spec2Model ----
(***************************************************************************)
(* Struktur: the tree engine of App.tsx (modifyTree and the handlers that  *)
(* build its rules), the inline editor of DirectoryNode, the confirmation  *)
(* modal, and the archive walk of zipService.                              *)
(*                                                                         *)
(* JavaScript objects have identity, and several properties of the engine  *)
(* are about identity (which nodes of a result are the very objects of the *)
(* input).  The model therefore keeps an explicit heap: a sequence of node *)
(* objects, an object's reference being its index.  A spread {...node}     *)
(* allocates a new object at the end of the heap.                          *)
(*                                                                         *)
(* Strings are sequences of atoms: an atom is either the whitespace        *)
(* character " " or a maximal block of non-whitespace text ("x.txt").      *)
(* Ids are sequences too: the template string                              *)
(* `${parentId}-${Date.now()}-${Math.random()}` is the parent's id         *)
(* followed by the two drawn numbers.                                      *)
(***************************************************************************)
EXTENDS Integers, Sequences, FiniteSets, TLC

VARIABLES
    heap,          \* the live objects: heap[r] is the node with reference r
    tree,          \* App's `tree` state: the root's reference, or Null
    now,           \* the clock Date.now() reads
    confirmation,  \* App's `confirmation` state (the open modal), or NoModal
    isLoading,     \* App's `isLoading` state
    exports,       \* the handleDownload calls that have not returned yet
    download,      \* the last download offered to the user, or NoDownload
    autosave       \* the localStorage item 'struktur-tree', whether the
                   \* last write to it threw, and the writes the store is
                   \* still to fail

vars ==
    <<heap, tree, now, confirmation, isLoading, exports, download, autosave>>

----------------------------------------------------------------------------
(* Bounds of the model *)

\* The largest number of nodes a tree is grown to.
MaxNodes == 3

\* The last clock value; Date.now() starts at 0, never decreases and stops
\* here.
MaxNow == 0

\* Math.random() draws one of 1..MaxRand.
MaxRand == 2

\* The most writes to localStorage that throw in one run of a store that
\* fails.
MaxWriteFailures == 1

----------------------------------------------------------------------------
(* Values *)

Null == 0
Undefined == <<>>
Some(x) == <<x>>

Range(s) == {s[i] : i \in 1..Len(s)}

\* The strings a user types into the inline editor.
InputValues ==
    { <<>>, <<" ">>, <<"x.txt">>, <<" ", "x.txt", " ">> }

Whitespace == {" "}

RECURSIVE trimStart(_)
trimStart(s) ==
    IF s # <<>> /\ Head(s) \in Whitespace THEN trimStart(Tail(s)) ELSE s

RECURSIVE trimEnd(_)
trimEnd(s) ==
    IF s # <<>> /\ s[Len(s)] \in Whitespace
    THEN trimEnd(SubSeq(s, 1, Len(s) - 1))
    ELSE s

\* String.prototype.trim
trim(s) == trimEnd(trimStart(s))

RootId == <<"root">>
RootName == <<"my-project">>

\* An id no node ever has: the target of an edit whose node is gone.
MissingId == <<"gone">>

\* FileSystemNode.  children and isExpanded are optional: Undefined or Some(v).
FileSystemNode(id, name, type, children, isExpanded) ==
    [id |-> id, name |-> name, type |-> type,
     children |-> children, isExpanded |-> isExpanded]

\* An object literal or a spread: a new object at the end of the heap.
Alloc(h, obj) == [heap |-> Append(h, obj), ref |-> Len(h) + 1]

childrenOf(h, r) ==
    IF h[r].children = Undefined THEN <<>> ELSE h[r].children[1]

----------------------------------------------------------------------------
(* Reachability and garbage collection *)

\* The references reachable from the references of `stack`, each once, in
\* pre-order.
RECURSIVE Visit(_, _, _)
Visit(h, stack, order) ==
    IF stack = <<>> THEN order
    ELSE LET r == Head(stack) IN
         IF r \in Range(order)
         THEN Visit(h, Tail(stack), order)
         ELSE Visit(h, childrenOf(h, r) \o Tail(stack), Append(order, r))

Reachable(h, root) == IF root = Null THEN <<>> ELSE Visit(h, <<root>>, <<>>)

IndexOf(order, r) == CHOOSE i \in 1..Len(order) : order[i] = r

\* What the garbage collector leaves of the heap once `roots` are the only
\* references held: the reachable objects, renumbered in pre-order (the
\* first root is 1).  A reference has no meaning but identity, so the
\* renumbering changes nothing the program can observe.
Compact(h, roots) ==
    LET order == Visit(h, roots, <<>>) IN
    [i \in 1..Len(order) |->
        LET n == h[order[i]] IN
        IF n.children = Undefined THEN n
        ELSE [n EXCEPT !.children =
                Some([j \in 1..Len(n.children[1]) |->
                        IndexOf(order, n.children[1][j])])]]

\* The root of a compacted heap.
RootOf(h) == IF h = <<>> THEN Null ELSE 1

----------------------------------------------------------------------------
(* The tree engine *)

\* Mutant of addLogic: the folder is left as expanded as it was.
addKeepsExpanded(rule, h, r) ==
    IF h[r].id = rule.parentId /\ h[r].type = "folder"
    THEN Alloc(h, [h[r] EXCEPT
                     !.children = Some(Append(childrenOf(h, r), rule.newNode))])
    ELSE [heap |-> h, ref |-> r]

\* The rule of handleAddNode: a copy of the matching folder with the new
\* node's reference appended and isExpanded forced true.
\* An add that does not ask for the kind of its target.
addToAnyKind(rule, h, r) ==
    IF h[r].id = rule.parentId
    THEN Alloc(h, [h[r] EXCEPT
                     !.children = Some(Append(childrenOf(h, r), rule.newNode)),
                     !.isExpanded = Some(TRUE)])
    ELSE [heap |-> h, ref |-> r]

\* An add that puts the new node ahead of the children.
addPrepends(rule, h, r) ==
    IF h[r].id = rule.parentId /\ h[r].type = "folder"
    THEN Alloc(h, [h[r] EXCEPT
                     !.children = Some(<<rule.newNode>> \o childrenOf(h, r)),
                     !.isExpanded = Some(TRUE)])
    ELSE [heap |-> h, ref |-> r]

addLogic(rule, h, r) ==
    IF h[r].id = rule.parentId /\ h[r].type = "folder"
    THEN Alloc(h, [h[r] EXCEPT
                     !.children = Some(Append(childrenOf(h, r), rule.newNode)),
                     !.isExpanded = Some(TRUE)])
    ELSE [heap |-> h, ref |-> r]

\* The rule of handleDeleteNode.
deleteLogic(rule, h, r) ==
    IF h[r].id = rule.nodeId
    THEN [heap |-> h, ref |-> Null]
    ELSE [heap |-> h, ref |-> r]

\* Mutant of renameLogic: the name is written into the node itself.
renameInPlace(rule, h, r) ==
    IF h[r].id = rule.nodeId
    THEN [heap |-> [h EXCEPT ![r].name = rule.newName], ref |-> r]
    ELSE [heap |-> h, ref |-> r]

\* The rule of handleRenameNode.
renameLogic(rule, h, r) ==
    IF h[r].id = rule.nodeId
    THEN Alloc(h, [h[r] EXCEPT !.name = rule.newName])
    ELSE [heap |-> h, ref |-> r]

\* !node.isExpanded: undefined is falsy.
notExpanded(n) == n.isExpanded # Some(TRUE)

\* The rule of handleToggleExpand.
toggleLogic(rule, h, r) ==
    IF h[r].id = rule.nodeId /\ h[r].type = "folder"
    THEN Alloc(h, [h[r] EXCEPT !.isExpanded = Some(notExpanded(h[r]))])
    ELSE [heap |-> h, ref |-> r]

logic(rule, h, r) ==
    CASE rule.kind = "add" -> addLogic(rule, h, r)
      [] rule.kind = "delete" -> deleteLogic(rule, h, r)
      [] rule.kind = "rename" -> renameLogic(rule, h, r)
      [] rule.kind = "toggle" -> toggleLogic(rule, h, r)

NonNull(s) == SelectSeq(s, LAMBDA c : c # Null)

\* Mutant of childrenChanged: every Directory is rebuilt.
alwaysChanged(newChildren, children) == TRUE

\* Mutant of childrenChanged: only the lengths are compared.
lengthChanged(newChildren, children) == Len(newChildren) # Len(children)

\* newChildren.length !== node.children.length || newChildren.some(...)
childrenChanged(newChildren, children) ==
    \/ Len(newChildren) # Len(children)
    \/ \E i \in 1..Len(newChildren) : newChildren[i] # children[i]

RECURSIVE modifyTree(_, _, _)
RECURSIVE mapModifyTree(_, _, _)

\* node.children.map(child => modifyTree(child, logic)): the children in
\* order, each call working on the heap the call before left.
mapModifyTree(h, children, rule) ==
    IF children = <<>> THEN [heap |-> h, out |-> <<>>]
    ELSE LET first == modifyTree(h, Head(children), rule)
             rest == mapModifyTree(first.heap, Tail(children), rule)
         IN [heap |-> rest.heap, out |-> <<first.ref>> \o rest.out]

modifyTree(h, r, rule) ==
    IF h[r].children = Undefined
    THEN logic(rule, h, r)
    ELSE LET mapped == mapModifyTree(h, h[r].children[1], rule)
             newChildren == NonNull(mapped.out)
             h1 == mapped.heap
         IN IF childrenChanged(newChildren, h1[r].children[1])
            THEN LET copy == Alloc(h1, [h1[r] EXCEPT
                                          !.children = Some(newChildren)])
                 IN logic(rule, copy.heap, copy.ref)
            ELSE logic(rule, h1, r)

\* setTree(currentTree => ...) of updateTree.
updateTree(h, t, rule) ==
    IF t = Null THEN [heap |-> h, ref |-> Null] ELSE modifyTree(h, t, rule)

RECURSIVE recursiveSet(_, _, _)
RECURSIVE mapRecursiveSet(_, _, _)

\* newNode.children.map(recursiveSet)
mapRecursiveSet(h, children, isExpanded) ==
    IF children = <<>> THEN [heap |-> h, out |-> <<>>]
    ELSE LET first == recursiveSet(h, Head(children), isExpanded)
             rest == mapRecursiveSet(first.heap, Tail(children), isExpanded)
         IN [heap |-> rest.heap, out |-> <<first.ref>> \o rest.out]

\* Mutant of recursiveSet: the children are not walked.
recursiveSetShallow(h, r, isExpanded) ==
    LET newNode == Alloc(h, h[r]) IN
    IF h[r].type # "folder" THEN newNode
    ELSE [heap |-> [newNode.heap EXCEPT
                      ![newNode.ref].isExpanded = Some(isExpanded)],
          ref |-> newNode.ref]

\* recursiveSet of setAllExpanded: newNode is a copy; the assignments to
\* newNode.isExpanded and newNode.children write into the copy.
recursiveSet(h, r, isExpanded) ==
    LET newNode == Alloc(h, h[r]) IN
    IF h[r].type # "folder" THEN newNode
    ELSE LET h1 == [newNode.heap EXCEPT
                      ![newNode.ref].isExpanded = Some(isExpanded)]
         IN IF h1[newNode.ref].children = Undefined
            THEN [heap |-> h1, ref |-> newNode.ref]
            ELSE LET mapped == mapRecursiveSet(
                                 h1, h1[newNode.ref].children[1], isExpanded)
                 IN [heap |-> [mapped.heap EXCEPT
                                 ![newNode.ref].children = Some(mapped.out)],
                     ref |-> newNode.ref]

\* setAllExpanded: nothing without a tree.
setAllExpanded(h, t, isExpanded) ==
    IF t = Null THEN [heap |-> h, ref |-> Null]
    ELSE recursiveSet(h, t, isExpanded)

\* The id handleAddNode gives the new node.
newId(parentId, time, rnd) == parentId \o <<time, rnd>>

newNodeData(parentId, name, type, time, rnd) ==
    FileSystemNode(newId(parentId, time, rnd), name, type,
                   IF type = "folder" THEN Some(<<>>) ELSE Undefined,
                   IF type = "folder" THEN Some(TRUE) ELSE Undefined)

\* handleAddNode: the new node is built first, then the rule runs over the
\* tree.  `time` and `rnd` are what Date.now() and Math.random() return.
handleAddNode(h, t, parentId, name, type, time, rnd) ==
    LET new == Alloc(h, newNodeData(parentId, name, type, time, rnd)) IN
    updateTree(new.heap, t,
               [kind |-> "add", parentId |-> parentId, newNode |-> new.ref])

\* handleDeleteNode: the id 'root' is refused.
handleDeleteNode(h, t, nodeId) ==
    IF nodeId = RootId THEN [heap |-> h, ref |-> t]
    ELSE updateTree(h, t, [kind |-> "delete", nodeId |-> nodeId])

handleRenameNode(h, t, nodeId, newName) ==
    updateTree(h, t, [kind |-> "rename", nodeId |-> nodeId,
                      newName |-> newName])

handleToggleExpand(h, t, nodeId) ==
    updateTree(h, t, [kind |-> "toggle", nodeId |-> nodeId])

\* handleCreateRoot: setTree of a new root object.
handleCreateRoot(h) ==
    Alloc(h, FileSystemNode(RootId, RootName, "folder",
                            Some(<<>>), Some(TRUE)))

\* The name handleConfirm passes on: inputValue as typed.
confirmedName(inputValue) == inputValue

\* A handleConfirm that drops the empty input only: `!inputValue` for
\* `!inputValue.trim()`.
handleConfirmUntrimmed(h, t, r, isAdding, isRenaming, inputValue, time, rnd) ==
    IF inputValue = <<>> THEN [heap |-> h, ref |-> t]
    ELSE IF isAdding # "none"
         THEN handleAddNode(h, t, h[r].id, confirmedName(inputValue),
                            isAdding, time, rnd)
         ELSE IF isRenaming
              THEN handleRenameNode(h, t, h[r].id, confirmedName(inputValue))
              ELSE [heap |-> h, ref |-> t]

\* handleConfirm of DirectoryNode for the editor of node r: an input that
\* trims to nothing is dropped; otherwise isAdding (a node type, or "none")
\* decides before isRenaming.
handleConfirm(h, t, r, isAdding, isRenaming, inputValue, time, rnd) ==
    IF trim(inputValue) = <<>> THEN [heap |-> h, ref |-> t]
    ELSE IF isAdding # "none"
         THEN handleAddNode(h, t, h[r].id, confirmedName(inputValue),
                            isAdding, time, rnd)
         ELSE IF isRenaming
              THEN handleRenameNode(h, t, h[r].id, confirmedName(inputValue))
              ELSE [heap |-> h, ref |-> t]

----------------------------------------------------------------------------
(* Project files and the confirmation modal *)

\* The project files a user may pick.  `parses` is whether JSON.parse
\* accepts the text; `nodes` is the parsed value as a heap whose root is 1
\* (a missing or empty field is the empty string, which is falsy alike).
ProjectFiles ==
    << [parses |-> FALSE, nodes |-> <<>>],
       [parses |-> TRUE,
        nodes |-> << FileSystemNode(<<"p1">>, <<>>, "folder",
                                    Some(<<>>), Some(TRUE)) >>],
       [parses |-> TRUE,
        nodes |-> << FileSystemNode(<<"p1">>, <<"proj">>, "folder",
                                    Some(<<2>>), Some(TRUE)),
                     FileSystemNode(<<"p2">>, <<"a.txt">>, "file",
                                    Undefined, Undefined) >>],
       [parses |-> TRUE,
        nodes |-> << FileSystemNode(<<>>, <<"proj">>, "folder",
                                    Some(<<>>), Some(TRUE)) >>],
       [parses |-> TRUE,
        nodes |-> << FileSystemNode(<<"p1">>, <<"proj">>, "",
                                    Some(<<>>), Some(TRUE)) >>] >>

\* A validation that asks for an id and a type only.
validWithoutName(file) ==
    /\ file.parses
    /\ file.nodes # <<>>
    /\ file.nodes[1].id # <<>>
    /\ file.nodes[1].type # ""

\* loadedTree.id && loadedTree.name && loadedTree.type
validProject(file) ==
    /\ file.parses
    /\ file.nodes # <<>>
    /\ file.nodes[1].id # <<>>
    /\ file.nodes[1].name # <<>>
    /\ file.nodes[1].type # ""

\* The objects JSON.parse built, placed after the objects of h.
Install(h, nodes) ==
    [heap |-> h \o [i \in 1..Len(nodes) |->
                      IF nodes[i].children = Undefined THEN nodes[i]
                      ELSE [nodes[i] EXCEPT !.children =
                              Some([j \in 1..Len(nodes[i].children[1]) |->
                                      nodes[i].children[1][j] + Len(h)])]],
     ref |-> Len(h) + 1]

NoModal == [kind |-> "none", nodeId |-> <<>>, file |-> 0]
DeleteModal(nodeId) == [kind |-> "delete", nodeId |-> nodeId, file |-> 0]
NewProjectModal == [kind |-> "new", nodeId |-> <<>>, file |-> 0]
LoadModal(f) == [kind |-> "load", nodeId |-> <<>>, file |-> f]

\* handleDeleteNodeRequest: the id 'root' opens no modal.
handleDeleteNodeRequest(c, nodeId) ==
    IF nodeId = RootId THEN c ELSE DeleteModal(nodeId)

\* reader.onload of handleLoadProject: a file that does not parse or is not
\* a valid project is answered with an alert and changes nothing.
handleLoadProject(c, f) ==
    IF validProject(ProjectFiles[f]) THEN LoadModal(f) ELSE c

\* A modal that stays open when its action has been confirmed.
staysOpen(c) == c

\* The onClose of the modal: setConfirmation(null).
onClose(c) == NoModal

\* The onConfirm of the open modal.
onConfirm(c, h, t) ==
    CASE c.kind = "delete" -> handleDeleteNode(h, t, c.nodeId)
      [] c.kind = "new" -> [heap |-> h, ref |-> Null]
      [] c.kind = "load" -> Install(h, ProjectFiles[c.file].nodes)
      [] OTHER -> [heap |-> h, ref |-> t]

----------------------------------------------------------------------------
(* The archive builder *)

\* A JSZip instance is the entries of the archive (an object keyed by the
\* entry's full name, so a set with one entry for a name) and the folder it
\* stands in.  An entry's name is the path of names that lead to it, with
\* `dir` for the "/" that ends a directory's name.
ZipEntry(path, dir) == [path |-> path, dir |-> dir, content |-> <<>>]

\* zipFolder.folder(name): the directory entry is added unless it is there,
\* and the instance returned stands in it.
zipFolder(files, root, name) ==
    [files |-> files \cup {ZipEntry(root \o <<name>>, TRUE)},
     root |-> root \o <<name>>]

\* zipFolder.file(name, ''): the entry of that name is set to an empty file.
zipFile(files, root, name) ==
    files \cup {ZipEntry(root \o <<name>>, FALSE)}

RECURSIVE addNodeToZip(_, _, _, _)
RECURSIVE addChildrenToZip(_, _, _, _)

\* for (const child of children) addNodeToZip(child, folder)
addChildrenToZip(h, children, files, root) ==
    IF children = <<>> THEN files
    ELSE addChildrenToZip(h, Tail(children),
                          addNodeToZip(h, Head(children), files, root), root)

\* Mutant of addNodeToZip: the children go into the folder of their parent.
addNodeToZipFlat(h, r, files, root) ==
    IF h[r].type = "folder"
    THEN addChildrenToZip(h, childrenOf(h, r),
                          zipFolder(files, root, h[r].name).files, root)
    ELSE zipFile(files, root, h[r].name)

\* An archive walk that stops at a collapsed Directory, as the rendering of
\* the tree does.
addNodeToZipRendered(h, r, files, root) ==
    IF h[r].type = "folder"
    THEN LET newFolder == zipFolder(files, root, h[r].name)
         IN IF h[r].isExpanded = Some(TRUE)
            THEN addChildrenToZip(h, childrenOf(h, r), newFolder.files,
                                  newFolder.root)
            ELSE newFolder.files
    ELSE zipFile(files, root, h[r].name)

\* addNodeToZip: the entries after node r has been added to the folder at
\* `root`.
addNodeToZip(h, r, files, root) ==
    IF h[r].type = "folder"
    THEN LET newFolder == zipFolder(files, root, h[r].name)
         IN addChildrenToZip(h, childrenOf(h, r), newFolder.files,
                             newFolder.root)
    ELSE zipFile(files, root, h[r].name)

\* createZipFromStructure up to its await: the root is made a folder of a
\* new archive and its children are added to that folder.
createZipFromStructure(h, rootNode) ==
    LET rootFolder == zipFolder({}, <<>>, h[rootNode].name)
    IN addChildrenToZip(h, childrenOf(h, rootNode), rootFolder.files,
                        rootFolder.root)

\* `${rootNode.name}.zip`
zipName(name) == name \o <<".zip">>

----------------------------------------------------------------------------
(* The state machine *)

\* The last download offered to the user: no link has been clicked yet.
NoDownload == [offered |-> FALSE, name |-> <<>>, files |-> {}]

Init ==
    /\ heap = <<>>
    /\ tree = Null
    /\ now = 0
    /\ confirmation = NoModal
    /\ isLoading = FALSE
    /\ exports = <<>>
    /\ download = NoDownload
    /\ autosave = [item |-> Undefined, failed |-> FALSE, faults |-> 0]

\* The objects of the current tree are the first of the heap.
TreeSize == Len(Reachable(heap, tree))

\* The ids of the current tree, and one of no node.
TreeIds == {heap[r].id : r \in 1..TreeSize}
TargetIds == TreeIds \cup {MissingId}

\* The references held once the tree state is t and the calls exps are in
\* flight: the tree's root, and the rootNode each call was given.
Roots(t, exps) ==
    (IF t = Null THEN <<>> ELSE <<t>>)
        \o [i \in 1..Len(exps) |-> exps[i].rootNode]

\* The state after the tree state has become t and the calls in flight
\* exps: the objects no reference reaches are garbage.
Commit(h, t, exps) ==
    LET order == Visit(h, Roots(t, exps), <<>>) IN
    /\ heap' = Compact(h, Roots(t, exps))
    /\ tree' = IF t = Null THEN Null ELSE IndexOf(order, t)
    /\ exports' = [i \in 1..Len(exps) |->
                      [exps[i] EXCEPT !.rootNode = IndexOf(order, @)]]

\* JSON.stringify(tree): the text of a node is its fields and the texts of
\* its children; an optional field that is not there is left out.
RECURSIVE stringify(_, _)
stringify(h, r) ==
    [h[r] EXCEPT !.children =
        IF @ = Undefined THEN Undefined
        ELSE Some([i \in 1..Len(@[1]) |-> stringify(h, @[1][i])])]

\* An autosave effect that writes a tree and leaves the item alone
\* when there is none.
effectKeepsItem(a, h, t, throws) ==
    IF throws THEN [a EXCEPT !.failed = TRUE, !.faults = @ - 1]
    ELSE IF t # Null
         THEN [a EXCEPT !.item = Some(stringify(h, t)), !.failed = FALSE]
         ELSE [a EXCEPT !.failed = FALSE]

\* The autosave effect for the tree t: setItem of its text, or removeItem
\* when there is no tree.  A call that throws is caught and logged, and the
\* item stays what it was.
autosaveEffect(a, h, t, throws) ==
    IF throws THEN [a EXCEPT !.failed = TRUE, !.faults = @ - 1]
    ELSE IF t # Null
         THEN [a EXCEPT !.item = Some(stringify(h, t)), !.failed = FALSE]
         ELSE [a EXCEPT !.item = Undefined, !.failed = FALSE]

\* setTree(res): the result becomes the tree state.  The autosave effect
\* depends on [tree]: it runs after the render of a tree state that is
\* another object (or none) than before, ahead of the next event.
SetTree(res) ==
    /\ Commit(res.heap, res.ref, exports)
    /\ IF res.ref = tree THEN UNCHANGED autosave
       ELSE \E throws \in BOOLEAN :
               /\ throws => autosave.faults > 0
               /\ autosave' = autosaveEffect(autosave, res.heap, res.ref,
                                             throws)

\* The buttons below are rendered under the modal's overlay, which takes
\* every click while a modal is open.
ModalClosed == confirmation = NoModal

\* The continuation of an await that has settled runs as a microtask,
\* ahead of every event: no handler runs between the return of
\* createZipFromStructure and the `finally` of handleDownload.
NoMicrotask == \A i \in 1..Len(exports) : exports[i].state # "returned"

\* "Create Root Folder" is rendered while there is no tree.
CreateRoot ==
    /\ NoMicrotask
    /\ ModalClosed
    /\ tree = Null
    /\ SetTree(handleCreateRoot(heap))
    /\ UNCHANGED <<now, confirmation, isLoading, download>>

\* onAddNode called with any id.
AddNode ==
    /\ NoMicrotask
    /\ ModalClosed
    /\ tree # Null
    /\ TreeSize < MaxNodes
    /\ \E parentId \in TargetIds, type \in {"folder", "file"},
          time \in now..MaxNow, rnd \in 1..MaxRand :
          /\ SetTree(handleAddNode(heap, tree, parentId, <<"x.txt">>, type,
                                   time, rnd))
          /\ now' = time
    /\ UNCHANGED <<confirmation, isLoading, download>>

\* onRenameNode called with any id.
RenameNode ==
    /\ NoMicrotask
    /\ ModalClosed
    /\ tree # Null
    /\ \E nodeId \in TargetIds :
          SetTree(handleRenameNode(heap, tree, nodeId, <<"x.txt">>))
    /\ UNCHANGED <<now, confirmation, isLoading, download>>

\* The editor states handleConfirm can run in on node r: the form is
\* rendered while the node is adding or renaming, and the add buttons exist
\* on folders only.
EditorStates(r) ==
    {e \in [isAdding : {"none", "folder", "file"}, isRenaming : BOOLEAN] :
        /\ e.isAdding # "none" \/ e.isRenaming
        /\ e.isAdding # "none" => heap[r].type = "folder"}

\* The inline editor of a rendered node is confirmed (Enter, or focus
\* leaving the form).
Confirm ==
    /\ NoMicrotask
    /\ ModalClosed
    /\ tree # Null
    /\ \E r \in 1..TreeSize, inputValue \in InputValues,
          time \in now..MaxNow, rnd \in 1..MaxRand :
          \E e \in EditorStates(r) :
             /\ e.isAdding # "none" /\ trim(inputValue) # <<>>
                   => TreeSize < MaxNodes
             /\ SetTree(handleConfirm(heap, tree, r, e.isAdding,
                                      e.isRenaming, inputValue, time, rnd))
             /\ now' = time
    /\ UNCHANGED <<confirmation, isLoading, download>>

ToggleExpand ==
    /\ NoMicrotask
    /\ ModalClosed
    /\ tree # Null
    /\ \E nodeId \in TargetIds :
          SetTree(handleToggleExpand(heap, tree, nodeId))
    /\ UNCHANGED <<now, confirmation, isLoading, download>>

\* "Expand All" and "Collapse All".
SetAllExpanded ==
    /\ NoMicrotask
    /\ ModalClosed
    /\ tree # Null
    /\ \E isExpanded \in BOOLEAN :
          SetTree(setAllExpanded(heap, tree, isExpanded))
    /\ UNCHANGED <<now, confirmation, isLoading, download>>

DeleteNodeRequest ==
    /\ NoMicrotask
    /\ ModalClosed
    /\ tree # Null
    /\ \E nodeId \in TargetIds :
          confirmation' = handleDeleteNodeRequest(confirmation, nodeId)
    /\ UNCHANGED <<heap, tree, now, isLoading, exports, download, autosave>>

\* "New Project" is rendered while there is a tree.
NewProject ==
    /\ NoMicrotask
    /\ ModalClosed
    /\ tree # Null
    /\ confirmation' = NewProjectModal
    /\ UNCHANGED <<heap, tree, now, isLoading, exports, download, autosave>>

\* reader.onload: it runs when the file has been read, whatever is open.
LoadProject ==
    /\ NoMicrotask
    /\ \E f \in 1..Len(ProjectFiles) :
          confirmation' = handleLoadProject(confirmation, f)
    /\ UNCHANGED <<heap, tree, now, isLoading, exports, download, autosave>>

\* ConfirmationModal.handleConfirm: onConfirm(), then onClose().
ModalConfirm ==
    /\ NoMicrotask
    /\ confirmation # NoModal
    /\ SetTree(onConfirm(confirmation, heap, tree))
    /\ confirmation' = onClose(confirmation)
    /\ UNCHANGED <<now, isLoading, download>>

\* Cancel, or a click on the overlay.
ModalClose ==
    /\ NoMicrotask
    /\ confirmation # NoModal
    /\ confirmation' = onClose(confirmation)
    /\ UNCHANGED <<heap, tree, now, isLoading, exports, download, autosave>>

Next ==
    \/ CreateRoot
    \/ AddNode
    \/ RenameNode
    \/ Confirm
    \/ ToggleExpand
    \/ SetAllExpanded
    \/ DeleteNodeRequest
    \/ NewProject
    \/ LoadProject
    \/ ModalConfirm
    \/ ModalClose

Spec == Init /\ [][Next]_vars

----------------------------------------------------------------------------
(* What the properties below speak of *)

\* The engine calls tried on the current tree: every rule kind aimed at
\* every id of the tree and at an id of no node.
Call(op, id, name, type, rnd) ==
    [op |-> op, id |-> id, name |-> name, type |-> type, rnd |-> rnd]

Calls ==
    {Call("add", id, <<"x.txt">>, type, rnd) :
        id \in TargetIds, type \in {"folder", "file"}, rnd \in 1..MaxRand}
    \cup {Call(op, id, <<"x.txt">>, "none", 0) :
            op \in {"rename", "toggle", "delete"}, id \in TargetIds}

\* transform(tree, rule) for the rule of call c.
Transform(c) ==
    CASE c.op = "add" ->
            handleAddNode(heap, tree, c.id, c.name, c.type, now, c.rnd)
      [] c.op = "rename" -> handleRenameNode(heap, tree, c.id, c.name)
      [] c.op = "toggle" -> handleToggleExpand(heap, tree, c.id)
      [] c.op = "delete" ->
            updateTree(heap, tree, [kind |-> "delete", nodeId |-> c.id])

\* Whether the rule of call c matches node n: add and toggle-expanded match
\* a Directory by id, rename and delete match any node by id.
Matches(c, n) ==
    /\ n.id = c.id
    /\ c.op \in {"add", "toggle"} => n.type = "folder"

\* The objects of a tree.
Nodes(h, root) == Range(Reachable(h, root))

\* The objects of the current tree.
Old == 1..TreeSize

\* The descendants of node r of the current tree.
Descendants(r) == Range(Visit(heap, childrenOf(heap, r), <<>>))

\* The nodes on the path from the root to node x, both included.
PathTo(x) == {p \in Old : x \in Descendants(p)} \cup {x}

UniqueIds(h) ==
    \A r1, r2 \in 1..Len(h) : h[r1].id = h[r2].id => r1 = r2

----------------------------------------------------------------------------
(* C1 *)

\* C1: identity stability.  For every tree and every rule that matches no
\* node of it (an edit aimed at an id that is not in the tree, an add or a
\* toggle aimed at the id of a File), the transform returns the very root
\* object it was given, and the result holds no object that the input did
\* not hold.
IdentityStability ==
    tree # Null =>
        \A c \in Calls :
            (\A r \in Old : ~Matches(c, heap[r])) =>
                /\ Transform(c).ref = tree
                /\ Nodes(Transform(c).heap, Transform(c).ref) = Old

\* A tree with a File below a Directory below the root, on which an add
\* aimed at the File's id has run and has given the root back.
IdentityStabilityWitness ==
    /\ tree # Null
    /\ \E f \in Old, d \in Old :
          /\ heap[f].type = "file"
          /\ d # tree
          /\ f \in Descendants(d)
          /\ \A r \in Old : heap[r].id = heap[f].id => r = f
          /\ Transform(Call("add", heap[f].id, <<"x.txt">>, "file", 1)).ref
                = tree

----------------------------------------------------------------------------
(* C2 *)

\* C2: localized change.  In a tree with unique ids, for a rule that matches
\* node x: every node that is neither on the path from the root to x nor
\* (for delete) below x is in the result as the object it was; no node of
\* the path is in the result, and the result holds one new object for each
\* surviving node of the path (and one more for the node an add creates);
\* the root of the result is a new object unless the root itself was
\* deleted.
LocalizedChange ==
    (tree # Null /\ UniqueIds(heap)) =>
        \A c \in Calls : \A x \in Old :
            Matches(c, heap[x]) =>
                LET res == Transform(c)
                    live == Nodes(res.heap, res.ref)
                    gone == IF c.op = "delete"
                            THEN Descendants(x) \cup {x} ELSE {}
                    path == PathTo(x)
                IN /\ \A r \in Old \ (path \cup gone) : r \in live
                   /\ \A r \in path \cup gone : r \notin live
                   /\ Cardinality(live \ Old) =
                         Cardinality(path)
                         + (CASE c.op = "add" -> 1
                              [] c.op = "delete" -> -1
                              [] OTHER -> 0)
                   /\ ~(c.op = "delete" /\ x = tree) =>
                         /\ res.ref # Null
                         /\ res.ref \notin Old

\* The root R has the children [A, B], and renaming A has given a new root
\* whose children are a new A and the very B.
LocalizedChangeWitness ==
    /\ tree # Null
    /\ UniqueIds(heap)
    /\ Len(childrenOf(heap, tree)) = 2
    /\ LET a == childrenOf(heap, tree)[1]
           b == childrenOf(heap, tree)[2]
           res == Transform(Call("rename", heap[a].id, <<"x.txt">>,
                                 "none", 0))
       IN /\ res.ref \notin Old
          /\ Len(childrenOf(res.heap, res.ref)) = 2
          /\ childrenOf(res.heap, res.ref)[1] \notin Old
          /\ res.heap[childrenOf(res.heap, res.ref)[1]].id = heap[a].id
          /\ childrenOf(res.heap, res.ref)[2] = b

----------------------------------------------------------------------------
(* C3 *)

\* C3: root protection.  Whenever a tree is held and the delete modal is
\* open for the id of its root, no step (confirming the modal included)
\* leaves the application without a tree.
RootProtection ==
    [][(tree # Null /\ confirmation = DeleteModal(heap[tree].id))
          => tree' # Null]_vars

----------------------------------------------------------------------------
(* C4 *)

\* The (id, name, kind) of the nodes rs of heap h.
Entries(h, rs) == {<<h[r].id, h[r].name, h[r].type>> : r \in rs}

\* What deleting the non-root Directory x must give: x and its descendants
\* are gone and every other node is there, so the tree has shrunk by the
\* size of x's subtree.
SubtreeRemoved(x) ==
    LET res == handleDeleteNode(heap, tree, heap[x].id)
        live == Nodes(res.heap, res.ref)
        gone == Descendants(x) \cup {x}
    IN /\ Cardinality(live) = Cardinality(Old) - Cardinality(gone)
       /\ Entries(res.heap, live) = Entries(heap, Old \ gone)

\* C4: deletion removes the subtree.  Deleting a non-root Directory that has
\* N descendants removes that node and its N descendants and nothing else.
DeletionRemovesSubtree ==
    tree # Null =>
        \A x \in Old \ {tree} : heap[x].type = "folder" => SubtreeRemoved(x)

\* The same for trees whose ids are unique: there the statement holds.
DeletionRemovesSubtreeOfUniqueIds ==
    (tree # Null /\ UniqueIds(heap)) =>
        \A x \in Old \ {tree} : heap[x].type = "folder" => SubtreeRemoved(x)

----------------------------------------------------------------------------
(* C5 *)

\* The nodes among rs of heap h that bear the name.
Named(h, rs, name) == {r \in rs : h[r].name = name}

DescendantsIn(h, r) == Range(Visit(h, childrenOf(h, r), <<>>))

AddFileCalls == {c \in Calls : c.op = "add" /\ c.type = "file"}

\* C5 as the specification states it: after adding a File with a name under
\* the Directory D, exactly one node below D bears that name, and D is
\* expanded.
AddThenFindExactlyOne ==
    tree # Null =>
        \A c \in AddFileCalls : \A d \in Old :
            Matches(c, heap[d]) =>
                LET res == Transform(c) IN
                \A q \in Nodes(res.heap, res.ref) :
                    Matches(c, res.heap[q]) =>
                        /\ Cardinality(Named(res.heap,
                                DescendantsIn(res.heap, q), c.name)) = 1
                        /\ res.heap[q].isExpanded = Some(TRUE)

\* C5, amended: after adding a File with a name under the Directory D, D is
\* a new object that is expanded and whose children are one more than
\* before, the last of them a new File of that name without children; one
\* more child of D bears the name than before, the nodes that already bore
\* it being kept.
AddThenFind ==
    tree # Null =>
        \A c \in AddFileCalls : \A d \in Old :
            Matches(c, heap[d]) =>
                LET res == Transform(c) IN
                \E q \in Nodes(res.heap, res.ref) \ Old :
                    LET kids == childrenOf(res.heap, q)
                        new == kids[Len(kids)]
                    IN /\ res.heap[q].id = heap[d].id
                       /\ res.heap[q].name = heap[d].name
                       /\ res.heap[q].type = "folder"
                       /\ res.heap[q].isExpanded = Some(TRUE)
                       /\ Len(kids) = Len(childrenOf(heap, d)) + 1
                       /\ new \notin Old
                       /\ res.heap[new].name = c.name
                       /\ res.heap[new].type = "file"
                       /\ res.heap[new].children = Undefined
                       /\ Cardinality(Named(res.heap, Range(kids), c.name))
                            = Cardinality(Named(heap,
                                 Range(childrenOf(heap, d)), c.name)) + 1

\* A collapsed Directory below the root that already has a child named
\* "x.txt": the add has left it expanded, with two children of that name.
AddThenFindWitness ==
    /\ tree # Null
    /\ \E d \in Old \ {tree} :
          /\ heap[d].type = "folder"
          /\ heap[d].isExpanded = Some(FALSE)
          /\ \A r \in Old : heap[r].id = heap[d].id => r = d
          /\ Cardinality(Named(heap, Range(childrenOf(heap, d)),
                               <<"x.txt">>)) = 1
          /\ LET res == Transform(Call("add", heap[d].id, <<"x.txt">>,
                                       "file", 1))
             IN \E q \in Nodes(res.heap, res.ref) \ Old :
                   /\ res.heap[q].id = heap[d].id
                   /\ res.heap[q].isExpanded = Some(TRUE)
                   /\ Cardinality(Named(res.heap,
                         Range(childrenOf(res.heap, q)), <<"x.txt">>)) = 2

----------------------------------------------------------------------------
(* C6 *)

\* C6: rename stores the trimmed input.  The names the editor stores have
\* no surrounding whitespace; the root's first name, the names of the
\* project files and the names the other callers pass have none either,
\* so no name of the tree has any.
RenameStoresTrimmed ==
    \A r \in Old : heap[r].name = trim(heap[r].name)

----------------------------------------------------------------------------
(* C7 *)

\* The objects the call was given, as the call has left them.
InputAfter(res) == SubSeq(res.heap, 1, Len(heap))

\* C7: no mutation of the input.  Every transform (with an add, rename,
\* toggle or delete rule) and setAllExpanded leave every object of the tree
\* they were given as it was, in every field, the children sequence
\* included.
NoMutation ==
    tree # Null =>
        /\ \A c \in Calls : InputAfter(Transform(c)) = heap
        /\ \A v \in BOOLEAN : InputAfter(setAllExpanded(heap, tree, v)) = heap

\* A tree of a root, a Directory and a node below it on which a rename of
\* the innermost node and a collapse of all have run: both have built new
\* objects (a new root among them) and the old objects are as they were.
NoMutationWitness ==
    /\ tree # Null
    /\ \E d \in Old \ {tree} : \E x \in Descendants(d) :
          LET res == Transform(Call("rename", heap[x].id, <<"x.txt">>,
                                    "none", 0))
              all == setAllExpanded(heap, tree, FALSE)
          IN /\ heap[x].name # <<"x.txt">>
             /\ res.ref \notin Old
             /\ Len(res.heap) > Len(heap)
             /\ InputAfter(res) = heap
             /\ heap[d].isExpanded = Some(TRUE)
             /\ all.ref \notin Old
             /\ InputAfter(all) = heap

----------------------------------------------------------------------------
(* C8 *)

\* C8: global id uniqueness.  No two nodes of the tree have the same id.
GlobalIdUniqueness == UniqueIds(heap)

----------------------------------------------------------------------------
(* C9 *)

\* The tree below r as a value: what a traversal reads, without the
\* identities.
RECURSIVE Shape(_, _)
Shape(h, r) ==
    [id |-> h[r].id, name |-> h[r].name, type |-> h[r].type,
     isExpanded |-> h[r].isExpanded,
     children |-> IF h[r].children = Undefined THEN Undefined
                  ELSE Some([i \in 1..Len(h[r].children[1]) |->
                               Shape(h, h[r].children[1][i])])]

\* The value of the tree below r with every Directory's expanded flag v and
\* everything else as it is.
RECURSIVE ShapeExpanded(_, _, _)
ShapeExpanded(h, r, v) ==
    [id |-> h[r].id, name |-> h[r].name, type |-> h[r].type,
     isExpanded |-> IF h[r].type = "folder" THEN Some(v)
                    ELSE h[r].isExpanded,
     children |-> IF h[r].children = Undefined THEN Undefined
                  ELSE Some([i \in 1..Len(h[r].children[1]) |->
                               ShapeExpanded(h, h[r].children[1][i], v)])]

\* C9: bulk toggle.  setAllExpanded(T, v) gives the tree T with the expanded
\* flag of every Directory v and nothing else changed (ids, names, kinds,
\* the order of the children, every field of the Files); so collapsing all
\* and then expanding all gives T with every Directory expanded.
BulkToggle ==
    tree # Null =>
        /\ \A v \in BOOLEAN :
              LET res == setAllExpanded(heap, tree, v)
              IN Shape(res.heap, res.ref) = ShapeExpanded(heap, tree, v)
        /\ LET collapsed == setAllExpanded(heap, tree, FALSE)
               expanded == setAllExpanded(collapsed.heap, collapsed.ref, TRUE)
           IN Shape(expanded.heap, expanded.ref)
                 = ShapeExpanded(heap, tree, TRUE)

\* A collapsed root over an expanded Directory over a File: collapsing all
\* has collapsed the inner Directory and expanding all has expanded the
\* root, the File being what it was.
BulkToggleWitness ==
    /\ tree # Null
    /\ heap[tree].isExpanded = Some(FALSE)
    /\ \E d \in Old \ {tree} : \E f \in Descendants(d) :
          /\ heap[d].type = "folder"
          /\ heap[d].isExpanded = Some(TRUE)
          /\ heap[f].type = "file"
          /\ LET down == setAllExpanded(heap, tree, FALSE)
                 up == setAllExpanded(heap, tree, TRUE)
                 dd == childrenOf(down.heap, down.ref)[1]
                 df == childrenOf(down.heap, dd)[1]
             IN /\ down.heap[dd].isExpanded = Some(FALSE)
                /\ down.heap[df] = heap[f]
                /\ up.heap[up.ref].isExpanded = Some(TRUE)

----------------------------------------------------------------------------
(* The export *)

\* A "Download .zip" that is never disabled.
neverDisabled == FALSE

\* "Download .zip" is disabled while isLoading.
downloadDisabled == isLoading

\* A handleDownload call up to the await inside createZipFromStructure.
\* The call keeps the root object it was given (rootNode) and the JSZip
\* instance it filled (files).  Without the JSZip library
\* createZipFromStructure alerts and returns at once.
\*   state     "generating": generateAsync is running;
\*             "returned": createZipFromStructure has returned and the
\*             `finally` of handleDownload has not run yet
\*   generate  how generateAsync settled
\*   outcome   how the promise of createZipFromStructure settled
\*   alerts    the alerts the call has shown
handleDownload(h, rootNode, libraryLoaded) ==
    IF libraryLoaded
    THEN [state |-> "generating", rootNode |-> rootNode,
          files |-> createZipFromStructure(h, rootNode),
          generate |-> "pending", outcome |-> "pending", alerts |-> 0]
    ELSE [state |-> "returned", rootNode |-> rootNode, files |-> {},
          generate |-> "none", outcome |-> "fulfilled", alerts |-> 1]

\* The link createZipFromStructure clicks once generateAsync has resolved:
\* the name is read from rootNode then.
downloadLink(h, e) ==
    [offered |-> TRUE, name |-> zipName(h[e.rootNode].name),
     files |-> e.files]

\* createZipFromStructure after generateAsync has resolved.
generateResolved(e) ==
    [e EXCEPT !.state = "returned", !.generate = "resolved",
              !.outcome = "fulfilled"]

\* createZipFromStructure after generateAsync has rejected: the catch logs
\* the error, alerts, and the function returns.
generateRejected(e) ==
    [e EXCEPT !.state = "returned", !.generate = "rejected",
              !.outcome = "fulfilled", !.alerts = @ + 1]

\* The alerts of a call once the catch of handleDownload has had its turn:
\* it alerts when the promise of createZipFromStructure rejected.
handleDownloadCatch(e) ==
    IF e.outcome = "rejected" THEN e.alerts + 1 ELSE e.alerts

\* exps without its i-th element.
Without(exps, i) ==
    SubSeq(exps, 1, i - 1) \o SubSeq(exps, i + 1, Len(exps))

\* A click on "Download .zip": the button is rendered while there is a
\* tree.
HandleDownload ==
    /\ NoMicrotask
    /\ ModalClosed
    /\ tree # Null
    /\ ~downloadDisabled
    /\ isLoading' = TRUE
    /\ \E libraryLoaded \in BOOLEAN :
          exports' = Append(exports,
                            handleDownload(heap, tree, libraryLoaded))
    /\ UNCHANGED <<heap, tree, now, confirmation, download, autosave>>

\* generateAsync resolves: the blob is offered as <root name>.zip.
GenerateResolved ==
    /\ NoMicrotask
    /\ \E i \in 1..Len(exports) :
          /\ exports[i].state = "generating"
          /\ download' = downloadLink(heap, exports[i])
          /\ exports' = [exports EXCEPT ![i] = generateResolved(@)]
    /\ UNCHANGED <<heap, tree, now, confirmation, isLoading, autosave>>

\* generateAsync rejects.
GenerateRejected ==
    /\ NoMicrotask
    /\ \E i \in 1..Len(exports) :
          /\ exports[i].state = "generating"
          /\ exports' = [exports EXCEPT ![i] = generateRejected(@)]
    /\ UNCHANGED <<heap, tree, now, confirmation, isLoading, download,
                   autosave>>

\* A `finally` that leaves the flag as it finds it.
finallyKeepsLoading == isLoading

\* The `finally` of handleDownload: what setIsLoading is given.
handleDownloadFinally == FALSE

\* The catch and the `finally` of handleDownload: the call is over and
\* lets go of its root object.
DownloadFinally ==
    /\ \E i \in 1..Len(exports) :
          /\ exports[i].state = "returned"
          /\ Commit(heap, tree, Without(exports, i))
    /\ isLoading' = handleDownloadFinally
    /\ UNCHANGED <<now, confirmation, download, autosave>>

\* The trees the autosave slot may hold when the application starts, each
\* as a heap whose root is 1.
SavedTrees ==
    << << FileSystemNode(RootId, <<"proj">>, "folder",
                         Some(<<2>>), Some(TRUE)),
          FileSystemNode(newId(RootId, 0, 1), <<"src">>, "folder",
                         Some(<<3>>), Some(TRUE)),
          FileSystemNode(newId(newId(RootId, 0, 1), 0, 1), <<"a.txt">>,
                         "file", Undefined, Undefined) >>,
       << FileSystemNode(RootId, RootName, "folder",
                         Some(<<2, 3>>), Some(TRUE)),
          FileSystemNode(newId(RootId, 0, 1), <<"src">>, "folder",
                         Some(<<>>), Some(FALSE)),
          FileSystemNode(newId(RootId, 0, 2), <<"a.txt">>,
                         "file", Undefined, Undefined) >> >>

\* useState(() => JSON.parse(localStorage.getItem(...))) with a saved tree.
InitSaved ==
    /\ \E i \in 1..Len(SavedTrees) : heap = SavedTrees[i]
    /\ tree = RootOf(heap)
    /\ now = 0
    /\ confirmation = NoModal
    /\ isLoading = FALSE
    /\ exports = <<>>
    /\ download = NoDownload
    /\ autosave = [item |-> Some(stringify(heap, tree)), failed |-> FALSE,
                   faults |-> 0]

NextExport ==
    \/ HandleDownload
    \/ GenerateResolved
    \/ GenerateRejected
    \/ DownloadFinally
    \/ ToggleExpand
    \/ SetAllExpanded
    \/ RenameNode
    \/ NewProject
    \/ ModalConfirm
    \/ ModalClose
    \/ CreateRoot
    \/ LoadProject

SpecExport == InitSaved /\ [][NextExport]_vars

\* The export with its scheduling: the promise of generateAsync settles,
\* one way or the other, and a handleDownload whose await is over runs its
\* catch and `finally`.  Nothing is assumed about what the user does.
SpecExportFair ==
    /\ SpecExport
    /\ WF_vars(GenerateResolved \/ GenerateRejected)
    /\ WF_vars(DownloadFinally)

----------------------------------------------------------------------------
(* C10 *)

\* The tree of the example: the root "proj" with the one child "src", a
\* Directory with the one child "a.txt", a File.
IsProjSrcA ==
    /\ tree # Null
    /\ heap[tree].name = <<"proj">>
    /\ Len(childrenOf(heap, tree)) = 1
    /\ LET src == childrenOf(heap, tree)[1] IN
          /\ heap[src].name = <<"src">>
          /\ heap[src].type = "folder"
          /\ Len(childrenOf(heap, src)) = 1
          /\ heap[childrenOf(heap, src)[1]].name = <<"a.txt">>
          /\ heap[childrenOf(heap, src)[1]].type = "file"

ProjSrc == ZipEntry(<< <<"proj">>, <<"src">> >>, TRUE)
ProjSrcA == ZipEntry(<< <<"proj">>, <<"src">>, <<"a.txt">> >>, FALSE)
Proj == ZipEntry(<< <<"proj">> >>, TRUE)

\* C10 as the specification states it: the archive handleDownload builds
\* of the example has exactly two entries, the directory "proj/src/" and
\* the empty file "proj/src/a.txt".
ArchiveShapeTwoEntries ==
    [][(IsProjSrcA /\ exports = <<>> /\ exports' # <<>>
            /\ exports'[1].state = "generating")
          => exports'[1].files = {ProjSrc, ProjSrcA}]_vars

\* C10, amended: the archive handleDownload builds of the example has
\* exactly three entries, the directory "proj/" of the root, the directory
\* "proj/src/" and the empty file "proj/src/a.txt".
ArchiveShape ==
    [][(IsProjSrcA /\ exports = <<>> /\ exports' # <<>>
            /\ exports'[1].state = "generating")
          => exports'[1].files = {Proj, ProjSrc, ProjSrcA}]_vars

\* The example's tree is held and its archive has been offered for
\* download, as proj.zip with the three entries.
ArchiveShapeWitness ==
    /\ IsProjSrcA
    /\ download.offered
    /\ download.name = <<"proj", ".zip">>
    /\ download.files = {Proj, ProjSrc, ProjSrcA}

----------------------------------------------------------------------------
(* C11 *)

\* The calls the archive walk issues, in the order it issues them: a call
\* is folder(name) or file(name, '') on the instance that stands at a path.
zipCall(op, path) == [op |-> op, path |-> path]

RECURSIVE addNodeToZipCalls(_, _, _)
RECURSIVE addChildrenToZipCalls(_, _, _)

addChildrenToZipCalls(h, children, root) ==
    IF children = <<>> THEN <<>>
    ELSE addNodeToZipCalls(h, Head(children), root)
            \o addChildrenToZipCalls(h, Tail(children), root)

addNodeToZipCalls(h, r, root) ==
    IF h[r].type = "folder"
    THEN <<zipCall("folder", root \o <<h[r].name>>)>>
            \o addChildrenToZipCalls(h, childrenOf(h, r),
                                     root \o <<h[r].name>>)
    ELSE <<zipCall("file", root \o <<h[r].name>>)>>

createZipCalls(h, rootNode) ==
    <<zipCall("folder", <<h[rootNode].name>>)>>
        \o addChildrenToZipCalls(h, childrenOf(h, rootNode),
                                 <<h[rootNode].name>>)

\* The ways from node r down to the nodes at and below it, each the
\* sequence of the nodes passed.  (A node that two Directories hold is at
\* the end of two ways.)
RECURSIVE WaysFrom(_, _)
WaysFrom(h, r) ==
    {<<r>>} \cup
    UNION {{<<r>> \o w : w \in WaysFrom(h, childrenOf(h, r)[i])} :
              i \in 1..Len(childrenOf(h, r))}

\* The names of the nodes on a way.
NamesOn(h, way) == [i \in 1..Len(way) |-> h[way[i]].name]

\* The entry a call leaves in the archive.
EntryOf(call) == ZipEntry(call.path, call.op = "folder")

\* The trees that differ from the current one in expanded flags only, as
\* the operations that write those flags make them.
Reflagged ==
    {setAllExpanded(heap, tree, v) : v \in BOOLEAN}
    \cup {handleToggleExpand(heap, tree, id) : id \in TreeIds}

\* C11: the archive is independent of expansion state.  Of a tree and of
\* the same tree with all its Directories expanded, with all collapsed, or
\* with one toggled, the walk issues the same sequence of calls and leaves
\* the same entries; the entries are those of the calls; every node below
\* the root has its entry (of its own kind) at the path of the names on its
\* way from the root; and every entry of a File has empty content.
ArchiveIgnoresExpansion ==
    tree # Null =>
        LET files == createZipFromStructure(heap, tree)
            calls == createZipCalls(heap, tree)
        IN /\ \A e \in Reflagged :
                /\ createZipCalls(e.heap, e.ref) = calls
                /\ createZipFromStructure(e.heap, e.ref) = files
           /\ files = {EntryOf(calls[i]) : i \in 1..Len(calls)}
           /\ \A way \in WaysFrom(heap, tree) :
                ZipEntry(NamesOn(heap, way),
                         heap[way[Len(way)]].type = "folder") \in files
           /\ \A f \in files : ~f.dir => f.content = <<>>

\* A collapsed Directory below the root holds a File, and the archive has
\* the File's entry under the Directory's.
ArchiveIgnoresExpansionWitness ==
    /\ tree # Null
    /\ \E d \in Old \ {tree} : \E f \in Descendants(d) :
          /\ heap[d].type = "folder"
          /\ heap[d].isExpanded = Some(FALSE)
          /\ heap[f].type = "file"
          /\ ZipEntry(<<heap[tree].name, heap[d].name, heap[f].name>>, FALSE)
                \in createZipFromStructure(heap, tree)

----------------------------------------------------------------------------
(* C12 *)

\* A step in which generateAsync of the i-th call in flight rejects.
GenerationFails(i) ==
    /\ exports[i].state = "generating"
    /\ Len(exports') = Len(exports)
    /\ exports'[i].generate = "rejected"

\* A step in which handleDownload returns from the i-th call in flight,
\* whose generateAsync had rejected.
FailedCallEnds(i) ==
    /\ exports[i].state = "returned"
    /\ exports[i].generate = "rejected"
    /\ Len(exports') = Len(exports) - 1

\* What holds of a failed generation whatever its caller is told: no
\* download is offered, the call is not generating again (no retry), and
\* when handleDownload returns the user has seen exactly one alert.
FailureIsTerminal(i) ==
    /\ GenerationFails(i) =>
          /\ download' = download
          /\ exports'[i].state = "returned"
    /\ (exports[i].state = "returned" /\ Len(exports') = Len(exports)) =>
          exports'[i].state = "returned"
    /\ FailedCallEnds(i) => handleDownloadCatch(exports[i]) = 1

\* C12: archive failure.  When generateAsync fails, the promise of
\* createZipFromStructure rejects (the failure reaches the caller as an
\* error outcome); no download is offered; the builder does not generate
\* again; and the user has been alerted exactly once when handleDownload
\* returns.
ArchiveFailure ==
    [][\A i \in 1..Len(exports) :
          /\ GenerationFails(i) => exports'[i].outcome = "rejected"
          /\ FailureIsTerminal(i)]_vars

\* What the code does on a failed generation: the promise of
\* createZipFromStructure fulfils, as it does after a success; the rest is
\* as C12 states it.
ArchiveFailureSwallowed ==
    [][\A i \in 1..Len(exports) :
          /\ GenerationFails(i) => exports'[i].outcome = "fulfilled"
          /\ FailureIsTerminal(i)]_vars

----------------------------------------------------------------------------
(* C13 *)

\* A project file that does not parse, or whose top-level value has an
\* empty or missing id, name or kind.
Malformed(file) ==
    \/ ~file.parses
    \/ file.nodes = <<>>
    \/ file.nodes[1].id = <<>>
    \/ file.nodes[1].name = <<>>
    \/ file.nodes[1].type = ""

\* C13: a rejected load leaves the tree untouched.  Whatever tree is held
\* and whatever modal is pending, reader.onload of a malformed file leaves
\* the pending confirmation what it was, so that confirming it does to
\* the tree what it would have done before the load attempt; and no load
\* modal is ever pending for a malformed file.
RejectedLoad ==
    /\ \A f \in 1..Len(ProjectFiles) :
          Malformed(ProjectFiles[f]) =>
             /\ handleLoadProject(confirmation, f) = confirmation
             /\ onConfirm(handleLoadProject(confirmation, f), heap, tree)
                   = onConfirm(confirmation, heap, tree)
    /\ confirmation.kind = "load" =>
          ~Malformed(ProjectFiles[confirmation.file])

\* A tree is held, the modal of a delete is pending, and every kind of
\* malformed file (unparseable, no name, no id, no kind) is there to be
\* loaded and leaves that modal pending.
RejectedLoadWitness ==
    /\ tree # Null
    /\ confirmation.kind = "delete"
    /\ \E f1, f2, f3, f4 \in 1..Len(ProjectFiles) :
          /\ ~ProjectFiles[f1].parses
          /\ ProjectFiles[f2].parses /\ ProjectFiles[f2].nodes[1].name = <<>>
          /\ ProjectFiles[f3].parses /\ ProjectFiles[f3].nodes[1].id = <<>>
          /\ ProjectFiles[f4].parses /\ ProjectFiles[f4].nodes[1].type = ""
          /\ \A f \in {f1, f2, f3, f4} :
                handleLoadProject(confirmation, f) = confirmation

----------------------------------------------------------------------------
(* C14 *)

\* A first visit with a store that fails some writes: quota exceeded, or
\* storage disabled for a while.
InitFailingStore ==
    /\ heap = <<>>
    /\ tree = Null
    /\ now = 0
    /\ confirmation = NoModal
    /\ isLoading = FALSE
    /\ exports = <<>>
    /\ download = NoDownload
    /\ autosave = [item |-> Undefined, failed |-> FALSE,
                   faults |-> MaxWriteFailures]

SpecAutosave == InitFailingStore /\ [][Next]_vars

\* C14: autosave mirrors the tree.  Unless the last write to the store
\* threw, the item holds the JSON text of the current tree when there is a
\* tree, and there is no item exactly when there is no tree.
AutosaveMirrors ==
    ~autosave.failed =>
        /\ tree # Null => autosave.item = Some(stringify(heap, tree))
        /\ tree = Null <=> autosave.item = Undefined

\* The project has been discarded after a write had failed on the way:
\* there is no item.
AutosaveMirrorsWitness ==
    /\ tree = Null
    /\ autosave.faults < MaxWriteFailures
    /\ ~autosave.failed
    /\ autosave.item = Undefined

----------------------------------------------------------------------------
(* C15 *)

\* The editors that can be confirmed on the current tree, with what was
\* typed into them and the number Math.random() would draw.
Confirmations ==
    {c \in [r : Old, isAdding : {"none", "folder", "file"},
            isRenaming : BOOLEAN, inputValue : InputValues,
            rnd : 1..MaxRand] :
        [isAdding |-> c.isAdding, isRenaming |-> c.isRenaming]
            \in EditorStates(c.r)}

Confirmed(c) ==
    handleConfirm(heap, tree, c.r, c.isAdding, c.isRenaming, c.inputValue,
                  now, c.rnd)

\* C15: empty input is discarded before the engine.  Confirming an editor
\* whose input is empty or whitespace only gives the tree it was given, the
\* same root object, and allocates nothing; and after confirming any input
\* a node has an empty name only if a node of that id had it before.
EmptyInputDiscarded ==
    tree # Null =>
        \A c \in Confirmations :
            LET res == Confirmed(c) IN
            /\ trim(c.inputValue) = <<>> =>
                  /\ res.ref = tree
                  /\ res.heap = heap
            /\ \A n \in Nodes(res.heap, res.ref) :
                  res.heap[n].name = <<>> =>
                     \E o \in Old : /\ heap[o].id = res.heap[n].id
                                    /\ heap[o].name = <<>>

\* A Directory on which an add confirmed with " " changes nothing and an
\* add confirmed with "x.txt" gives another tree; and a File on which a
\* rename confirmed with "" changes nothing.
EmptyInputDiscardedWitness ==
    /\ tree # Null
    /\ \E c1, c2, c3 \in Confirmations :
          /\ c1.isAdding = "file" /\ c1.inputValue = <<" ">>
          /\ Confirmed(c1) = [heap |-> heap, ref |-> tree]
          /\ c2.isAdding = "file" /\ c2.inputValue = <<"x.txt">>
          /\ c2.r = c1.r
          /\ Confirmed(c2).ref # tree
          /\ heap[c3.r].type = "file"
          /\ c3.isRenaming /\ c3.inputValue = <<>>
          /\ Confirmed(c3) = [heap |-> heap, ref |-> tree]

----------------------------------------------------------------------------
(* C16 *)

\* C16: single in-flight export.  At most one handleDownload call is in
\* flight, so at most one archive is being generated; isLoading is true
\* as long as the call is in flight; and while isLoading is true no click
\* starts another, whatever has become of the tree meanwhile.
SingleInFlight ==
    /\ Len(exports) <= 1
    /\ exports # <<>> => isLoading
    /\ isLoading => ~ENABLED HandleDownload

\* An archive of the saved tree "proj" is being generated while the tree
\* held is the one Create Root has made after a New Project, whose
\* "Download .zip" is rendered.
SingleInFlightWitness ==
    /\ Len(exports) = 1
    /\ exports[1].state = "generating"
    /\ isLoading
    /\ ModalClosed
    /\ tree # Null
    /\ tree # exports[1].rootNode
    /\ heap[exports[1].rootNode].name = <<"proj">>
    /\ heap[tree].name = RootName
    /\ heap[tree].id = RootId

----------------------------------------------------------------------------
(* C17 *)

\* A saved tree whose root has three children, that some may go and two
\* stay.
SiblingsTree ==
    << FileSystemNode(RootId, <<"proj">>, "folder",
                      Some(<<2, 3, 4>>), Some(TRUE)),
       FileSystemNode(newId(RootId, 0, 1), <<"src">>, "folder",
                      Some(<<>>), Some(TRUE)),
       FileSystemNode(newId(RootId, 0, 2), <<"a.txt">>, "file",
                      Undefined, Undefined),
       FileSystemNode(newId(RootId, 0, 3), <<"doc">>, "folder",
                      Some(<<>>), Some(FALSE)) >>

InitSiblings ==
    /\ heap = SiblingsTree
    /\ tree = RootOf(heap)
    /\ now = 0
    /\ confirmation = NoModal
    /\ isLoading = FALSE
    /\ exports = <<>>
    /\ download = NoDownload
    /\ autosave = [item |-> Some(stringify(heap, tree)), failed |-> FALSE,
                   faults |-> 0]

SpecSiblings == InitSiblings /\ [][Next]_vars

\* The ids of the children of node r, in their order.
ChildIds(h, r) ==
    [i \in 1..Len(childrenOf(h, r)) |-> h[childrenOf(h, r)[i]].id]

\* The ids of `ids` other than id, in their order.
RECURSIVE WithoutId(_, _)
WithoutId(ids, id) ==
    IF ids = <<>> THEN <<>>
    ELSE IF Head(ids) = id THEN WithoutId(Tail(ids), id)
         ELSE <<Head(ids)>> \o WithoutId(Tail(ids), id)

\* The ids the children of the Directory o have, in their order, once the
\* transform of call c has run.
ChildIdsAfter(c, o) ==
    CASE c.op = "add" /\ Matches(c, heap[o]) ->
            Append(ChildIds(heap, o), newId(c.id, now, c.rnd))
      [] c.op = "delete" -> WithoutId(ChildIds(heap, o), c.id)
      [] OTHER -> ChildIds(heap, o)

\* C17: sibling order is preserved.  After any transform, every Directory
\* of the result that is not the node just added is a Directory of the
\* input (by id) whose children are what they were, in their order: less
\* the deleted ones after a delete, and followed by the new node in the
\* target of an add.
SiblingOrder ==
    tree # Null =>
        \A c \in Calls :
            LET res == Transform(c) IN
            \A n \in Nodes(res.heap, res.ref) :
                (res.heap[n].type = "folder"
                    /\ ~(c.op = "add" /\ n = Len(heap) + 1)) =>
                    \E o \in Old :
                        /\ heap[o].id = res.heap[n].id
                        /\ heap[o].type = "folder"
                        /\ ChildIds(res.heap, n) = ChildIdsAfter(c, o)

\* The second of the three children of the saved tree has been deleted:
\* the first and the third are the root's children, in that order; and an
\* add under the root puts the new node after the two.
SiblingOrderWitness ==
    /\ tree # Null
    /\ ChildIds(heap, tree) = <<newId(RootId, 0, 1), newId(RootId, 0, 3)>>
    /\ heap[childrenOf(heap, tree)[1]].name = <<"src">>
    /\ heap[childrenOf(heap, tree)[2]].name = <<"doc">>
    /\ LET add == handleAddNode(heap, tree, heap[tree].id, <<"x.txt">>,
                                "file", now, 2)
       IN ChildIds(add.heap, add.ref)
             = ChildIds(heap, tree) \o <<newId(heap[tree].id, now, 2)>>

----------------------------------------------------------------------------
(* C18 *)

\* The ids and kinds of the nodes of a tree.
Kinds(h, root) ==
    {<<h[n].id, h[n].type>> : n \in Nodes(h, root)}

\* Every File of a tree is without children.
FilesAreLeaves(h, root) ==
    \A n \in Nodes(h, root) : h[n].type = "file" => h[n].children = Undefined

\* The ids and kinds the transform of call c leaves of those of the
\* current tree: all but a delete leave them all, and an add that finds its
\* target has one more, the new node's id with the kind asked for.
KindsAfter(c) ==
    CASE c.op = "add" /\ (\E o \in Old : Matches(c, heap[o])) ->
            Kinds(heap, tree) \cup {<<newId(c.id, now, c.rnd), c.type>>}
      [] c.op = "delete" ->
            {k \in Kinds(heap, tree) : k[1] # c.id}
      [] OTHER -> Kinds(heap, tree)

\* C18: a File node never has children.  Every File of the tree is without
\* children and every node is a Directory or a File; every transform (an
\* add aimed at a File's id among them) and every bulk expand or collapse
\* gives a tree whose Files are without children and whose nodes have, id
\* by id, the kinds they had (after a delete, those that are left of them).
FileHasNoChildren ==
    tree # Null =>
        /\ FilesAreLeaves(heap, tree)
        /\ \A r \in Old : heap[r].type \in {"folder", "file"}
        /\ \A c \in Calls :
              LET res == Transform(c) IN
              res.ref # Null =>
                 /\ FilesAreLeaves(res.heap, res.ref)
                 /\ IF c.op = "delete"
                    THEN Kinds(res.heap, res.ref) \subseteq KindsAfter(c)
                    ELSE Kinds(res.heap, res.ref) = KindsAfter(c)
        /\ \A v \in BOOLEAN :
              LET res == setAllExpanded(heap, tree, v) IN
              /\ FilesAreLeaves(res.heap, res.ref)
              /\ Kinds(res.heap, res.ref) = Kinds(heap, tree)

\* A renamed File below a Directory below the root: an add aimed at the
\* File's id gives back the tree as it is.
FileHasNoChildrenWitness ==
    /\ tree # Null
    /\ \E d \in Old \ {tree} : \E f \in Descendants(d) :
          /\ heap[d].type = "folder"
          /\ heap[f].type = "file"
          /\ heap[f].name = <<"x.txt">>
          /\ heap[f].children = Undefined
          /\ \A type \in {"folder", "file"} :
                handleAddNode(heap, tree, heap[f].id, <<"x.txt">>, type,
                              now, 1).ref = tree

----------------------------------------------------------------------------
(* C19 *)

\* The ids of the nodes a delete of `id` removes from the current tree.
DeletedIds(id) ==
    {heap[n].id : n \in UNION {{o} \cup Descendants(o) :
                                 o \in {o \in Old : heap[o].id = id}}}

\* C19: destructive actions are gated by confirmation.  A step that leaves
\* a modal pending (a request, or a cancel that is not one) does not touch
\* the tree.  A step after which a node of the tree is gone is the
\* confirmation of the pending modal and closes it, so that it is
\* confirmed once: of New Project, and no tree is left; of a load, and the
\* tree is the file's; of a delete, and the ids gone are those of the
\* modal's node and of the nodes below it.
ConfirmationGate ==
    [][/\ confirmation' # NoModal => (heap' = heap /\ tree' = tree)
       /\ ~(TreeIds \subseteq TreeIds') =>
             /\ confirmation.kind \in {"delete", "new", "load"}
             /\ confirmation' = NoModal
             /\ confirmation.kind = "new" => tree' = Null
             /\ confirmation.kind = "load" =>
                   /\ tree' # Null
                   /\ stringify(heap', tree')
                        = stringify(ProjectFiles[confirmation.file].nodes, 1)
             /\ confirmation.kind = "delete" =>
                   /\ TreeIds \ TreeIds' \subseteq DeletedIds(confirmation.nodeId)
                   /\ TreeIds' \subseteq TreeIds]_vars

\* A project has been loaded and its File deleted, each after its modal
\* was confirmed, and the modal of New Project is pending over the tree.
ConfirmationGateWitness ==
    /\ tree # Null
    /\ heap[tree].id = <<"p1">>
    /\ TreeSize = 1
    /\ confirmation = NewProjectModal

----------------------------------------------------------------------------
(* C20 *)

\* The name of the one top-level entry of an archive: the name the root
\* had when the archive was filled.
TopName(files) ==
    (CHOOSE f \in files : Len(f.path) = 1).path[1]

\* A step in which the i-th call in flight offers its download.
Offers(i) ==
    /\ exports[i].state = "generating"
    /\ Len(exports') = Len(exports)
    /\ exports'[i].generate = "resolved"

\* C20: export works on a snapshot.  The call that a click starts fills
\* its archive from the tree held at the click, the root's name on top.
\* While the archive is generated its entries stay what they are, and the
\* tree the call was given stays what it was, whatever is done to the tree
\* held.  The download offered has those entries, and the name of their
\* top-level entry followed by ".zip".
ExportSnapshot ==
    [][/\ Len(exports') > Len(exports) =>
             LET e == exports'[Len(exports')] IN
             e.state = "generating" =>
                /\ e.files = createZipFromStructure(heap, tree)
                /\ TopName(e.files) = heap[tree].name
       /\ \A i \in 1..Len(exports) :
             /\ exports[i].state = "generating" =>
                   /\ exports[i].files
                        = createZipFromStructure(heap, exports[i].rootNode)
                   /\ TopName(exports[i].files)
                        = heap[exports[i].rootNode].name
             /\ Len(exports') = Len(exports) =>
                   exports'[i].files = exports[i].files
             /\ Offers(i) =>
                   /\ download'.offered
                   /\ download'.files = exports[i].files
                   /\ download'.name = zipName(TopName(exports[i].files))]_vars

\* The archive of the saved tree "proj" has been offered as proj.zip with
\* its three entries, and handleDownload has not returned yet; the tree
\* held is a loaded one by now, its root renamed.
ExportSnapshotWitness ==
    /\ Len(exports) = 1
    /\ exports[1].state = "returned"
    /\ exports[1].generate = "resolved"
    /\ download.name = <<"proj", ".zip">>
    /\ download.files = {Proj, ProjSrc, ProjSrcA}
    /\ tree # Null
    /\ tree # exports[1].rootNode
    /\ heap[tree].id = <<"p1">>
    /\ heap[tree].name = <<"x.txt">>

----------------------------------------------------------------------------
(* C21 *)

\* C21: the in-flight flag is always released.  Whenever an export is in
\* flight (isLoading is true), be it one whose archive is being generated,
\* one whose generation resolved or rejected, or one that found no archive
\* library, a later state has isLoading false, no call in flight, and
\* "Download .zip" not disabled.
FlagReleased ==
    isLoading ~> (~isLoading /\ exports = <<>> /\ ~downloadDisabled)

\* An export has run to its end and the flag is released: the archive of
\* the saved tree "proj" has been offered, no call is in flight, and
\* "Download .zip" can be clicked again.
FlagReleasedWitness ==
    /\ download.offered
    /\ download.name = <<"proj", ".zip">>
    /\ exports = <<>>
    /\ ~isLoading
    /\ ENABLED HandleDownload

====
